---- MODULE Spec2Model ----
(***************************************************************************)
(* Model of weedbox/queryhelper: the condition validator/translator        *)
(* (ConditionsHandle), the paginator (PaginationHandle) and the            *)
(* orchestrator (QueryHelper).  The gorm query handle is modelled as the   *)
(* log of the backend calls made on it.                                    *)
(***************************************************************************)
EXTENDS Integers, Sequences, FiniteSets, TLC

VARIABLES
    settings,           \* the *QuerySettings the caller passes (an option: <<>> is nil)
    obj,                \* which object the caller has constructed: "none", "helper", "handle"
    queryConditions,    \* QueryHelper.queryConditions (mutated in place by UpdateConditions)
    paginationRequest,  \* QueryHelper.paginationRequest
    pagination,         \* QueryHelper.pagination.Info
    conditions,         \* QueryHelper.conditions (an option: <<>> is the nil *ConditionsHandle)
    ch,                 \* a ConditionsHandle the caller uses directly
    ret,                \* what the last call returned to the caller
    raw,                \* history: the conditions handed to the latest UpdateConditions
    rawPage,            \* history: page / page size as the options set them
    applied             \* history: QueryHelper.Apply has been called

vars == <<settings, obj, queryConditions, paginationRequest, pagination,
          conditions, ch, ret, raw, rawPage, applied>>

----------------------------------------------------------------------------
(* Bounds of the model *)

MaxLen == 2         \* longest search_fields / order_by / filters list of a request
MaxText == 1        \* longest generated search text (the scenario text is added)
MaxSort == 2        \* requested sort factors range over -MaxSort..MaxSort
MaxTotal == 3       \* count results range over 0..MaxTotal (and the example total)

(* Program constants *)

DefaultPage == 1
DefaultPageSize == 10
DefaultMaxPageSize == 100

----------------------------------------------------------------------------
(* Pointers and slices *)

Nil == <<>>
Ptr(x) == <<x>>
Deref(p) == p[1]

BSeq(S, n) == UNION {[1..k -> S] : k \in 0..n}

InSeq(x, s) == \E i \in 1..Len(s) : s[i] = x

(* Values of a filter: a scalar, or a []interface{} *)
Scalar(v) == [kind |-> "scalar", elems |-> <<v>>]
Array(vs) == [kind |-> "array", elems |-> vs]

FilterCondition(f, o, v) == [Field |-> f, Operator |-> o, Value |-> v]

ZeroQueryConditions ==
    [SearchText |-> <<>>, SearchFields |-> <<>>, OrderBy |-> <<>>,
     SortFactor |-> 0, Filters |-> <<>>]

ZeroPaginationRequest == [Page |-> 0, PageSize |-> 0]

ZeroPaginationInfo == [Page |-> 0, PageSize |-> 0, Total |-> 0, TotalPages |-> 0]

NoAlias == [x \in {} |-> ""]

DefaultQuerySettings ==
    [ColumnAlias |-> NoAlias,
     AllowedOrderBy |-> <<"created_at">>,
     AllowedSearch |-> <<>>,
     AllowedFilters |-> [x \in {} |-> <<>>],
     DefaultSortFactor |-> 1]

----------------------------------------------------------------------------
(* strings.TrimSpace on a text, a sequence of characters *)

IsSpace(c) == c \in {" ", "\t", "\n"}

RECURSIVE TrimLeft(_)
TrimLeft(s) ==
    IF s # <<>> /\ IsSpace(Head(s)) THEN TrimLeft(Tail(s)) ELSE s

RECURSIVE TrimRight(_)
TrimRight(s) ==
    IF s # <<>> /\ IsSpace(s[Len(s)]) THEN TrimRight(SubSeq(s, 1, Len(s) - 1)) ELSE s

TrimSpace(s) == TrimRight(TrimLeft(s))

----------------------------------------------------------------------------
(* condition.go: validation *)

getRealColumns(alias, columns) ==
    [i \in 1..Len(columns) |->
        IF columns[i] \in DOMAIN alias THEN alias[columns[i]] ELSE columns[i]]

NewConditionsHandle(s) ==
    [Settings |-> IF s = Nil THEN DefaultQuerySettings ELSE Deref(s),
     Conditions |-> Nil]

(* the loops of lines 86-93 and 107-114: requested fields found in the allow list *)
RECURSIVE FilterAllowedFields(_, _)
FilterAllowedFields(requested, allowed) ==
    IF requested = <<>> THEN <<>>
    ELSE (IF InSeq(Head(requested), allowed) THEN <<Head(requested)>> ELSE <<>>)
         \o FilterAllowedFields(Tail(requested), allowed)

(* mutant: the empty-list fallback is lost *)
SearchFallback_Never(fields) ==
    FALSE

SearchFallback(fields) ==
    Len(fields) = 0 \/ (Len(fields) = 1 /\ fields[1] = "")

(* mutant: order_by takes the [""] sentinel of search_fields as well *)
OrderByFallback_Sentinel(fields) ==
    Len(fields) = 0 \/ (Len(fields) = 1 /\ fields[1] = "")

(* mutant: a single requested field is taken for an unspecified order_by *)
OrderByFallback_AtMostOne(fields) ==
    Len(fields) <= 1

OrderByFallback(fields) ==
    Len(fields) = 0

SanitizeSearchFields(s, fields) ==
    getRealColumns(s.ColumnAlias,
        IF SearchFallback(fields) THEN s.AllowedSearch
        ELSE FilterAllowedFields(fields, s.AllowedSearch))

SanitizeOrderBy(s, fields) ==
    getRealColumns(s.ColumnAlias,
        IF OrderByFallback(fields) THEN s.AllowedOrderBy
        ELSE FilterAllowedFields(fields, s.AllowedOrderBy))

SanitizeSortFactor(s, factor) ==
    IF factor = 0 THEN s.DefaultSortFactor
    ELSE IF factor > 1 THEN 1
    ELSE IF factor < 0 - 1 THEN 0 - 1
    ELSE factor

RealField(s, field) ==
    IF field \in DOMAIN s.ColumnAlias THEN s.ColumnAlias[field] ELSE field

(* mutant: the operator is not checked against the field's allowed operators *)
FilterValid_FieldOnly(s, filter) ==
    filter.Field \in DOMAIN s.AllowedFilters

FilterValid(s, filter) ==
    /\ filter.Field \in DOMAIN s.AllowedFilters
    /\ InSeq(filter.Operator, s.AllowedFilters[filter.Field])

RECURSIVE SanitizeFilters(_, _)
SanitizeFilters(s, filters) ==
    IF filters = <<>> THEN <<>>
    ELSE (IF FilterValid(s, Head(filters))
          THEN <<[Head(filters) EXCEPT !.Field = RealField(s, Head(filters).Field)]>>
          ELSE <<>>)
         \o SanitizeFilters(s, Tail(filters))

(* mutant: validation stores the search text trimmed *)
UpdateConditions_TrimText(s, c) ==
    [SearchText |-> TrimSpace(c.SearchText),
     SearchFields |-> SanitizeSearchFields(s, c.SearchFields),
     OrderBy |-> SanitizeOrderBy(s, c.OrderBy),
     SortFactor |-> SanitizeSortFactor(s, c.SortFactor),
     Filters |-> IF Len(c.Filters) > 0 THEN SanitizeFilters(s, c.Filters) ELSE c.Filters]

UpdateConditions(s, c) ==
    [SearchText |-> c.SearchText,
     SearchFields |-> SanitizeSearchFields(s, c.SearchFields),
     OrderBy |-> SanitizeOrderBy(s, c.OrderBy),
     SortFactor |-> SanitizeSortFactor(s, c.SortFactor),
     Filters |-> IF Len(c.Filters) > 0 THEN SanitizeFilters(s, c.Filters) ELSE c.Filters]

----------------------------------------------------------------------------
(* The gorm query handle: the log of the backend calls made on it *)

Call(op, cols, oper, args, like, n) ==
    [op |-> op, cols |-> cols, oper |-> oper, args |-> args, like |-> like, n |-> n]

Where(cols, oper, args, like) == Call("Where", cols, oper, args, like, 0)

FreshQuery == [log |-> <<>>]

Chain(query, calls) == [query EXCEPT !.log = @ \o calls]

(* the backend calls a handle has received *)
Issued(query) == IF query = Nil THEN <<>> ELSE Deref(query).log

(* condition.go: projection of the sanitized conditions on the query *)

ComparisonOperators == {"=", "!=", ">", "<", ">=", "<=", "IN", "NOT IN", "LIKE"}

(* one iteration of the switch of lines 186-210: the calls it makes *)
FilterCalls(filter) ==
    IF filter.Operator \in ComparisonOperators
    THEN <<Where(<<filter.Field>>, filter.Operator, <<filter.Value>>, <<>>)>>
    ELSE IF filter.Operator = "BETWEEN"
    THEN IF filter.Value.kind = "array" /\ Len(filter.Value.elems) = 2
         THEN <<Where(<<filter.Field>>, "BETWEEN",
                      <<Scalar(filter.Value.elems[1]), Scalar(filter.Value.elems[2])>>,
                      <<>>)>>
         ELSE <<>>
    ELSE <<>>

RECURSIVE ApplyFilters(_)
ApplyFilters(filters) ==
    IF filters = <<>> THEN <<>>
    ELSE FilterCalls(Head(filters)) \o ApplyFilters(Tail(filters))

Keywords(c) == TrimSpace(c.SearchText)

ApplySearch(c) ==
    IF Keywords(c) # <<>> /\ Len(c.SearchFields) > 0
    THEN <<Where(c.SearchFields, "LIKE OR", <<>>, <<"%">> \o Keywords(c) \o <<"%">>)>>
    ELSE <<>>

ApplyOrder(c) ==
    IF Len(c.OrderBy) > 0
    THEN <<Call("Order", c.OrderBy, IF c.SortFactor < 0 THEN "DESC" ELSE "ASC",
                <<>>, <<>>, 0)>>
    ELSE <<>>

ErrConditionsNotSet == "conditions not set"

(* mutant: the conditions are checked before the query handle *)
ConditionsHandle_Apply_ConditionsFirst(cond, db) ==
    IF cond = Nil THEN [query |-> db, err |-> ErrConditionsNotSet]
    ELSE IF db = Nil THEN [query |-> Nil, err |-> ""]
    ELSE [query |-> Ptr(Chain(Deref(db),
                        ApplyFilters(Deref(cond).Filters)
                        \o ApplySearch(Deref(cond))
                        \o ApplyOrder(Deref(cond)))),
          err |-> ""]

(* ConditionsHandle.Apply: cond is ch.Conditions, db the query handle (options) *)
ConditionsHandle_Apply(cond, db) ==
    IF db = Nil THEN [query |-> Nil, err |-> ""]
    ELSE IF cond = Nil THEN [query |-> db, err |-> ErrConditionsNotSet]
    ELSE [query |-> Ptr(Chain(Deref(db),
                        ApplyFilters(Deref(cond).Filters)
                        \o ApplySearch(Deref(cond))
                        \o ApplyOrder(Deref(cond)))),
          err |-> ""]

----------------------------------------------------------------------------
(* pagination *)

(* mutant: the page size is not clamped to DefaultMaxPageSize *)
NewPaginationRequest_NoMaxClamp(req) ==
    LET r0 == IF req = Nil THEN ZeroPaginationRequest ELSE Deref(req)
        r1 == IF r0.Page <= 0 THEN [r0 EXCEPT !.Page = DefaultPage] ELSE r0
    IN  IF r1.PageSize <= 0 THEN [r1 EXCEPT !.PageSize = DefaultPageSize] ELSE r1

NewPaginationRequest(req) ==
    LET r0 == IF req = Nil THEN ZeroPaginationRequest ELSE Deref(req)
        r1 == IF r0.Page <= 0 THEN [r0 EXCEPT !.Page = DefaultPage] ELSE r0
        r2 == IF r1.PageSize <= 0 THEN [r1 EXCEPT !.PageSize = DefaultPageSize] ELSE r1
    IN  IF r2.PageSize > DefaultMaxPageSize
        THEN [r2 EXCEPT !.PageSize = DefaultMaxPageSize] ELSE r2

(* NewPaginationHandle: the request as it leaves normalised, and the handle's Info *)
NewPaginationHandle(req) ==
    [req |-> NewPaginationRequest(req),
     Info |-> [Page |-> NewPaginationRequest(req).Page,
               PageSize |-> NewPaginationRequest(req).PageSize,
               Total |-> 0, TotalPages |-> 0]]

Offset(info) == (info.Page - 1) * info.PageSize

(* mutant: the division rounds down *)
TotalPages_Floor(total, pageSize) ==
    IF total = 0 THEN 1 ELSE total \div pageSize

TotalPages(total, pageSize) ==
    IF total = 0 THEN 1 ELSE (total + pageSize - 1) \div pageSize

ErrCount == "count failed"

(* the backend's answer to the count round-trip *)
CountOk(total) == [ok |-> TRUE, total |-> total]
CountError == [ok |-> FALSE, total |-> 0]

(* mutant: offset and limit are applied before the count is issued *)
PaginationHandle_Apply_LimitFirst(info, query, cnt) ==
    IF query = Nil THEN [info |-> info, query |-> Nil, err |-> ""]
    ELSE IF ~cnt.ok
    THEN [info |-> info,
          query |-> Ptr(Chain(Deref(query), <<Call("Count", <<>>, "error", <<>>, <<>>, 0)>>)),
          err |-> ErrCount]
    ELSE LET counted == [info EXCEPT !.Total = cnt.total,
                                     !.TotalPages = TotalPages(cnt.total, info.PageSize)]
         IN  [info |-> counted,
              query |-> Ptr(Chain(Deref(query),
                          <<Call("Offset", <<>>, "", <<>>, <<>>, Offset(counted)),
                            Call("Limit", <<>>, "", <<>>, <<>>, counted.PageSize),
                            Call("Count", <<>>, "ok", <<>>, <<>>, cnt.total)>>)),
              err |-> ""]

(* mutant: the count result is stored before the error is looked at *)
PaginationHandle_Apply_StoreFirst(info, query, cnt) ==
    IF query = Nil THEN [info |-> info, query |-> Nil, err |-> ""]
    ELSE LET counted == [info EXCEPT !.Total = cnt.total,
                                     !.TotalPages = TotalPages(cnt.total, info.PageSize)]
         IN  IF ~cnt.ok
             THEN [info |-> counted,
                   query |-> Ptr(Chain(Deref(query),
                               <<Call("Count", <<>>, "error", <<>>, <<>>, 0)>>)),
                   err |-> ErrCount]
             ELSE [info |-> counted,
                   query |-> Ptr(Chain(Deref(query),
                               <<Call("Count", <<>>, "ok", <<>>, <<>>, cnt.total),
                                 Call("Offset", <<>>, "", <<>>, <<>>, Offset(counted)),
                                 Call("Limit", <<>>, "", <<>>, <<>>, counted.PageSize)>>)),
                   err |-> ""]

(* PaginationHandle.Apply: info is p.Info, query the handle, cnt the backend's answer *)
PaginationHandle_Apply(info, query, cnt) ==
    IF query = Nil THEN [info |-> info, query |-> Nil, err |-> ""]
    ELSE IF ~cnt.ok
    THEN [info |-> info,
          query |-> Ptr(Chain(Deref(query), <<Call("Count", <<>>, "error", <<>>, <<>>, 0)>>)),
          err |-> ErrCount]
    ELSE LET counted == [info EXCEPT !.Total = cnt.total,
                                     !.TotalPages = TotalPages(cnt.total, info.PageSize)]
         IN  [info |-> counted,
              query |-> Ptr(Chain(Deref(query),
                          <<Call("Count", <<>>, "ok", <<>>, <<>>, cnt.total),
                            Call("Offset", <<>>, "", <<>>, <<>>, Offset(counted)),
                            Call("Limit", <<>>, "", <<>>, <<>>, counted.PageSize)>>)),
              err |-> ""]

----------------------------------------------------------------------------
(* dataquery.go: the orchestrator *)

ZeroOption == [opt |-> "", n |-> 0, text |-> <<>>, fields |-> <<>>, filters |-> <<>>]

WithPage(page) == [ZeroOption EXCEPT !.opt = "WithPage", !.n = page]
WithPageSize(pageSize) == [ZeroOption EXCEPT !.opt = "WithPageSize", !.n = pageSize]
WithSearchText(text) == [ZeroOption EXCEPT !.opt = "WithSearchText", !.text = text]
WithSearchFields(fields) == [ZeroOption EXCEPT !.opt = "WithSearchFields", !.fields = fields]
WithOrderBy(fields) == [ZeroOption EXCEPT !.opt = "WithOrderBy", !.fields = fields]
WithSortFactor(factor) == [ZeroOption EXCEPT !.opt = "WithSortFactor", !.n = factor]
WithFilters(filters) == [ZeroOption EXCEPT !.opt = "WithFilters", !.filters = filters]

(* opt(dq): each option sets one field of the pending request *)
ApplyOption(dq, o) ==
    CASE o.opt = "WithPage" -> [dq EXCEPT !.paginationRequest.Page = o.n]
      [] o.opt = "WithPageSize" -> [dq EXCEPT !.paginationRequest.PageSize = o.n]
      [] o.opt = "WithSearchText" -> [dq EXCEPT !.queryConditions.SearchText = o.text]
      [] o.opt = "WithSearchFields" -> [dq EXCEPT !.queryConditions.SearchFields = o.fields]
      [] o.opt = "WithOrderBy" -> [dq EXCEPT !.queryConditions.OrderBy = o.fields]
      [] o.opt = "WithSortFactor" -> [dq EXCEPT !.queryConditions.SortFactor = o.n]
      [] o.opt = "WithFilters" -> [dq EXCEPT !.queryConditions.Filters = o.filters]
      [] OTHER -> dq

RECURSIVE ApplyOptions(_, _)
ApplyOptions(dq, opts) ==
    IF opts = <<>> THEN dq
    ELSE ApplyOptions(ApplyOption(dq, Head(opts)), Tail(opts))

(* the pending request once every option has run (lines 65-72) *)
PendingRequest(opts) ==
    ApplyOptions([queryConditions |-> ZeroQueryConditions,
                  paginationRequest |-> ZeroPaginationRequest], opts)

NewQueryHelper(opts) ==
    LET dq == PendingRequest(opts)
        ph == NewPaginationHandle(Ptr(dq.paginationRequest))
    IN  [queryConditions |-> dq.queryConditions,
         paginationRequest |-> ph.req,
         pagination |-> ph.Info,
         conditions |-> Nil]

(* QueryHelper.Info: dereferences dq.conditions, which is nil until Apply has run *)
QueryHelper_Info(dq) ==
    IF dq.conditions = Nil
    THEN [panic |-> TRUE, info |-> Nil]
    ELSE [panic |-> FALSE,
          info |-> Ptr([Pagination |-> dq.pagination,
                        Conditions |-> Deref(dq.conditions).Conditions])]

(* QueryHelper.Apply: s is the settings argument, query the handle argument,
   cnt the backend's answer to the count round-trip.  dq.pagination.Info is
   written in place by PaginationHandle.Apply, so it is taken as that call left
   it whether or not the call failed. *)
QueryHelper_Apply(dq, s, query, cnt) ==
    LET dqh == NewConditionsHandle(s)
        qc == UpdateConditions(dqh.Settings, dq.queryConditions)
        updated == [dqh EXCEPT !.Conditions = Ptr(qc)]
        a == IF query # Nil THEN ConditionsHandle_Apply(updated.Conditions, query)
             ELSE [query |-> query, err |-> ""]
        p == PaginationHandle_Apply(dq.pagination, a.query, cnt)
    IN  IF a.err # ""
        THEN [dq |-> [dq EXCEPT !.queryConditions = qc], query |-> Nil, err |-> a.err,
              issued |-> Issued(a.query)]
        ELSE IF p.err # ""
        THEN [dq |-> [dq EXCEPT !.queryConditions = qc, !.conditions = Ptr(updated),
                                !.pagination = p.info],
              query |-> Nil, err |-> p.err, issued |-> Issued(p.query)]
        ELSE [dq |-> [dq EXCEPT !.queryConditions = qc, !.conditions = Ptr(updated),
                                !.pagination = p.info],
              query |-> p.query, err |-> "", issued |-> Issued(p.query)]

----------------------------------------------------------------------------
(* The inputs the callers draw from *)

Policy(alias, orderBy, search, filters, factor) ==
    [ColumnAlias |-> alias, AllowedOrderBy |-> orderBy, AllowedSearch |-> search,
     AllowedFilters |-> filters, DefaultSortFactor |-> factor]

(* the policy of the end-to-end scenario *)
ScenarioPolicy ==
    Policy(NoAlias, <<"created_at">>, <<"name">>,
           "price" :> <<">=", "<=">>, 1)

(* a policy with aliases, after the README's service layer; descending by default;
   it also whitelists an operator token that Apply has no case for *)
AliasPolicy ==
    Policy("category" :> "category_id" @@ "name" :> "full_name" @@ "created_at" :> "created",
           <<"created_at", "price">>, <<"name", "title">>,
           "category" :> <<"=", "IN">> @@ "price" :> <<">=", ">", "BETWEEN", "~">>, 0 - 1)

(* the README's Quick Start policy: no alias, DefaultSortFactor left unset *)
QuickStartPolicy ==
    Policy(NoAlias, <<"created_at", "price">>, <<"name", "title">>,
           "price" :> <<">=", "<=", ">", "<">> @@ "status" :> <<"=", "IN">>, 0)

Policies == {Nil, Ptr(ScenarioPolicy), Ptr(AliasPolicy), Ptr(QuickStartPolicy)}

SearchNames == {"", "name", "title"}
OrderNames == {"", "created_at", "price"}

FilterUniverse ==
    {FilterCondition("price", ">=", Scalar(100)),
     FilterCondition("price", ">", Scalar(50)),
     FilterCondition("category", "=", Scalar(5)),
     FilterCondition("internal_cost", ">=", Scalar(100)),
     FilterCondition("price", "BETWEEN", Array(<<1, 9>>)),
     FilterCondition("price", "BETWEEN", Scalar(7)),
     FilterCondition("price", "~", Scalar(1))}

Phone == <<" ", "p", "h", "o", "n", "e", " ">>

Texts == BSeq({" ", "a"}, MaxText) \cup {Phone}

SortFactors == (0 - MaxSort)..MaxSort

PageArgs == {0 - 3, 0, 1, 2, 1000}

PageSizeArgs == {0 - 1, 0, 2, 3, DefaultPageSize, DefaultMaxPageSize,
                 DefaultMaxPageSize + 1, 500}

Totals == (0..MaxTotal) \cup {25}

OptionLists ==
    {<<WithSearchText(t), WithSearchFields(f)>> : t \in Texts, f \in BSeq(SearchNames, MaxLen)}
    \cup {<<WithOrderBy(f)>> : f \in BSeq(OrderNames, MaxLen)}
    \cup {<<WithSortFactor(k)>> : k \in SortFactors}
    \cup {<<WithSearchText(t), WithFilters(fl)>> :
              t \in {<<>>, Phone}, fl \in BSeq(FilterUniverse, MaxLen)}
    \cup {<<WithPage(p), WithPageSize(z)>> : p \in PageArgs, z \in PageSizeArgs}

RawConditions == {PendingRequest(opts).queryConditions : opts \in OptionLists}

QueryArgs == {Nil, Ptr(FreshQuery)}

CountResults == {CountOk(t) : t \in Totals} \cup {CountError}

(* no count round-trip is made on a nil handle *)
CountAnswers(query) == IF query = Nil THEN {CountError} ELSE CountResults

----------------------------------------------------------------------------
(* The state machine *)

(* what a call returned, with its query handle argument and the backend calls that
   the handle had received when the call ended *)
Returned(op, arg, query, err, panic, info, issued) ==
    [op |-> op, arg |-> arg, query |-> query, err |-> err, panic |-> panic,
     info |-> info, issued |-> issued]

Helper ==
    [queryConditions |-> queryConditions, paginationRequest |-> paginationRequest,
     pagination |-> pagination, conditions |-> conditions]

Init ==
    /\ settings \in Policies
    /\ obj = "none"
    /\ queryConditions = ZeroQueryConditions
    /\ paginationRequest = ZeroPaginationRequest
    /\ pagination = ZeroPaginationInfo
    /\ conditions = Nil
    /\ ch = NewConditionsHandle(Nil)
    /\ ret = Returned("", Nil, Nil, "", FALSE, Nil, <<>>)
    /\ raw = Nil
    /\ rawPage = ZeroPaginationRequest
    /\ applied = FALSE

CallNewQueryHelper ==
    /\ obj = "none"
    /\ \E opts \in OptionLists :
        \E dq \in {NewQueryHelper(opts)} :
        /\ queryConditions' = dq.queryConditions
        /\ paginationRequest' = dq.paginationRequest
        /\ pagination' = dq.pagination
        /\ conditions' = dq.conditions
        /\ rawPage' = PendingRequest(opts).paginationRequest
    /\ obj' = "helper"
    /\ ret' = Returned("NewQueryHelper", Nil, Nil, "", FALSE, Nil, <<>>)
    /\ UNCHANGED <<settings, ch, raw, applied>>

CallApply ==
    /\ obj = "helper"
    /\ \E query \in QueryArgs : \E cnt \in CountAnswers(query) :
        \E r \in {QueryHelper_Apply(Helper, settings, query, cnt)} :
        /\ queryConditions' = r.dq.queryConditions
        /\ pagination' = r.dq.pagination
        /\ conditions' = r.dq.conditions
        /\ ret' = Returned("Apply", query, r.query, r.err, FALSE, Nil, r.issued)
    /\ raw' = Ptr(queryConditions)
    /\ applied' = TRUE
    /\ UNCHANGED <<settings, obj, paginationRequest, ch, rawPage>>

CallInfo ==
    /\ obj = "helper"
    /\ \E r \in {QueryHelper_Info(Helper)} :
        ret' = Returned("Info", Nil, Nil, "", r.panic, r.info, <<>>)
    /\ UNCHANGED <<settings, obj, queryConditions, paginationRequest, pagination,
                   conditions, ch, raw, rawPage, applied>>

CallNewConditionsHandle ==
    /\ obj = "none"
    /\ ch' = NewConditionsHandle(settings)
    /\ obj' = "handle"
    /\ ret' = Returned("NewConditionsHandle", Nil, Nil, "", FALSE, Nil, <<>>)
    /\ UNCHANGED <<settings, queryConditions, paginationRequest, pagination,
                   conditions, raw, rawPage, applied>>

(* The caller validates a new conditions object, or validates again the object the
   handle already holds.  A new object on a used handle leaves the state that it
   leaves on a new handle, so it is drawn for the first call only. *)
ConditionsArgs ==
    IF ch.Conditions = Nil THEN RawConditions ELSE {Deref(ch.Conditions)}

CallUpdateConditions ==
    /\ obj = "handle"
    /\ \E c \in ConditionsArgs :
        /\ ch' = [ch EXCEPT !.Conditions = Ptr(UpdateConditions(ch.Settings, c))]
        /\ raw' = Ptr(c)
    /\ ret' = Returned("UpdateConditions", Nil, Nil, "", FALSE, Nil, <<>>)
    /\ UNCHANGED <<settings, obj, queryConditions, paginationRequest, pagination,
                   conditions, rawPage, applied>>

CallConditionsApply ==
    /\ obj = "handle"
    /\ \E db \in QueryArgs :
        \E r \in {ConditionsHandle_Apply(ch.Conditions, db)} :
        ret' = Returned("ConditionsHandle.Apply", db, r.query, r.err, FALSE, Nil, Issued(r.query))
    /\ UNCHANGED <<settings, obj, queryConditions, paginationRequest, pagination,
                   conditions, ch, raw, rawPage, applied>>

Next ==
    \/ CallNewQueryHelper
    \/ CallApply
    \/ CallInfo
    \/ CallNewConditionsHandle
    \/ CallUpdateConditions
    \/ CallConditionsApply

Spec == Init /\ [][Next]_vars

----------------------------------------------------------------------------
(* What the properties read *)

(* UpdateConditions has run on the object the caller holds *)
Validated == raw # Nil

RawInput == Deref(raw)

(* the settings the validation ran against *)
UsedSettings ==
    IF obj = "helper" THEN Deref(conditions).Settings ELSE ch.Settings

(* the conditions as validation left them *)
Sanitized ==
    IF obj = "helper" THEN queryConditions ELSE Deref(ch.Conditions)

Aliased(alias, field) == IF field \in DOMAIN alias THEN alias[field] ELSE field

AliasedAll(alias, fields) == [i \in 1..Len(fields) |-> Aliased(alias, fields[i])]

Member(field, allowed) == \E j \in 1..Len(allowed) : allowed[j] = field

(* the requested fields that are on the allow list, in requested order, aliased *)
Whitelisted(alias, requested, allowed) ==
    AliasedAll(alias, SelectSeq(requested, LAMBDA f : Member(f, allowed)))

(* the positions of the raw filters whose field and operator the policy allows *)
KeptPositions(s, filters) ==
    {i \in 1..Len(filters) :
        /\ filters[i].Field \in DOMAIN s.AllowedFilters
        /\ Member(filters[i].Operator, s.AllowedFilters[filters[i].Field])}

(* the k-th of them *)
KthKept(s, filters, k) ==
    CHOOSE i \in KeptPositions(s, filters) :
        Cardinality({j \in KeptPositions(s, filters) : j < i}) = k - 1

----------------------------------------------------------------------------
(* C1: after UpdateConditions the sanitized filters are exactly the raw filters whose
   field is a key of AllowedFilters and whose operator is in that field's list, in
   input order with duplicates kept, each with its field replaced by its alias when
   it has one, and with operator and value unchanged. *)
C1_FiltersExactWhitelist ==
    Validated =>
        /\ Len(Sanitized.Filters) = Cardinality(KeptPositions(UsedSettings, RawInput.Filters))
        /\ \A k \in 1..Len(Sanitized.Filters) :
            LET f == RawInput.Filters[KthKept(UsedSettings, RawInput.Filters, k)] IN
            /\ Sanitized.Filters[k].Field = Aliased(UsedSettings.ColumnAlias, f.Field)
            /\ Sanitized.Filters[k].Operator = f.Operator
            /\ Sanitized.Filters[k].Value = f.Value

(* a raw list with a dropped filter followed by a kept one that is aliased *)
C1_Witness ==
    /\ Validated
    /\ Len(RawInput.Filters) = 2
    /\ KeptPositions(UsedSettings, RawInput.Filters) = {2}
    /\ RawInput.Filters[2].Field \in DOMAIN UsedSettings.ColumnAlias
    /\ Len(Sanitized.Filters) = 1

(* C2 as stated: with an empty search_fields list the sanitized searchFields equal
   policy.allowedSearch, aliases or not. *)
C2_AsStated ==
    (Validated /\ RawInput.SearchFields = <<>>) =>
        Sanitized.SearchFields = UsedSettings.AllowedSearch

(* C2 amended: with an empty search_fields list the sanitized searchFields are
   policy.allowedSearch with every field replaced by its alias when it has one. *)
C2_EmptySearchFieldsFallback ==
    (Validated /\ RawInput.SearchFields = <<>>) =>
        Sanitized.SearchFields =
            AliasedAll(UsedSettings.ColumnAlias, UsedSettings.AllowedSearch)

C2_Witness ==
    /\ Validated
    /\ RawInput.SearchFields = <<>>
    /\ Sanitized.SearchFields # <<>>
    /\ Sanitized.SearchFields # UsedSettings.AllowedSearch

(* C3 as stated: order_by falls back to the whole of allowedOrderBy (aliased) when
   the raw list is empty or is the single entry "", and is otherwise the requested
   members of allowedOrderBy in requested order, aliased. *)
C3_AsStated ==
    Validated =>
        Sanitized.OrderBy =
            IF RawInput.OrderBy = <<>> \/ RawInput.OrderBy = <<"">>
            THEN AliasedAll(UsedSettings.ColumnAlias, UsedSettings.AllowedOrderBy)
            ELSE Whitelisted(UsedSettings.ColumnAlias, RawInput.OrderBy,
                             UsedSettings.AllowedOrderBy)

(* C3 amended: order_by falls back to the whole of allowedOrderBy (aliased) only
   when the raw list is empty; every other list, the single entry "" included, is
   filtered to the requested members of allowedOrderBy in requested order, aliased. *)
C3_OrderByFallbackAndFilter ==
    Validated =>
        Sanitized.OrderBy =
            IF RawInput.OrderBy = <<>>
            THEN AliasedAll(UsedSettings.ColumnAlias, UsedSettings.AllowedOrderBy)
            ELSE Whitelisted(UsedSettings.ColumnAlias, RawInput.OrderBy,
                             UsedSettings.AllowedOrderBy)

(* the single entry "" was requested and nothing is ordered by *)
C3_Witness ==
    /\ Validated
    /\ RawInput.OrderBy = <<"">>
    /\ UsedSettings.AllowedOrderBy # <<>>
    /\ Sanitized.OrderBy = <<>>

(* C4: after validation the sanitized sortFactor is -1 or 1, whatever the requested
   sort_factor and the policy's defaultSortFactor. *)
C4_SortFactorIsDirection ==
    Validated => Sanitized.SortFactor \in {0 - 1, 1}

(* C5: once the helper is constructed, page >= 1 and 1 <= pageSize <= 100: a page
   <= 0 became 1, a page size <= 0 became 10, a page size > 100 became 100, a page
   >= 1 is kept whatever its size; Apply and Info leave these values as they are. *)
C5_PaginationNormalized ==
    obj = "helper" =>
        /\ pagination.Page >= 1
        /\ pagination.PageSize >= 1 /\ pagination.PageSize <= 100
        /\ pagination.Page = (IF rawPage.Page <= 0 THEN 1 ELSE rawPage.Page)
        /\ pagination.PageSize =
            (IF rawPage.PageSize <= 0 THEN 10
             ELSE IF rawPage.PageSize > 100 THEN 100 ELSE rawPage.PageSize)
        /\ (ret.op = "Info" /\ ~ret.panic) =>
            /\ Deref(ret.info).Pagination.Page = pagination.Page
            /\ Deref(ret.info).Pagination.PageSize = pagination.PageSize

(* page -3 and page size 500 were requested, and Apply has run since *)
C5_Witness ==
    /\ obj = "helper"
    /\ rawPage.Page < 0 /\ rawPage.PageSize > 100
    /\ ret.op = "Apply" /\ ret.err = "" /\ ret.query # Nil
    /\ pagination.Page = 1 /\ pagination.PageSize = 100

(* the count round-trips of the last call, as positions in the calls it issued *)
CountCalls == {i \in 1..Len(ret.issued) : ret.issued[i].op = "Count"}

TheCount == CHOOSE i \in CountCalls : TRUE

AppliedOk == ret.op = "Apply" /\ ret.arg # Nil /\ ret.err = ""

(* C6: after a successful Apply on a query handle, Total is the count result and
   TotalPages is the ceiling of Total / PageSize, except that a total of 0 gives 1. *)
C6_TotalPagesCeiling ==
    AppliedOk =>
        /\ CountCalls # {}
        /\ pagination.Total = ret.issued[TheCount].n
        /\ IF pagination.Total = 0 THEN pagination.TotalPages = 1
           ELSE /\ pagination.TotalPages * pagination.PageSize >= pagination.Total
                /\ (pagination.TotalPages - 1) * pagination.PageSize < pagination.Total

(* total = 25 with pageSize = 10 gives 3 pages *)
C6_Witness ==
    /\ AppliedOk
    /\ pagination.Total = 25 /\ pagination.PageSize = 10 /\ pagination.TotalPages = 3

HasText == \E k \in 1..Len(Sanitized.SearchText) : ~IsSpace(Sanitized.SearchText[k])

(* C7: in every orchestrator Apply on a non-nil handle exactly one count is issued;
   every predicate is attached before it (one per sanitized comparison filter, and
   the search group when there is a search text and a search field); offset
   (page-1)*pageSize and limit pageSize come after it, and only when it succeeded;
   the stored total is what that count returned. *)
C7_PredicatesThenCountThenLimit ==
    (ret.op = "Apply" /\ ret.arg # Nil) =>
        /\ Cardinality(CountCalls) = 1
        /\ \A i \in 1..Len(ret.issued) :
            /\ ret.issued[i].op = "Where" => i < TheCount
            /\ ret.issued[i].op \in {"Offset", "Limit"} => i > TheCount /\ ret.err = ""
        /\ \A k \in 1..Len(queryConditions.Filters) :
            queryConditions.Filters[k].Operator \in
                {"=", "!=", ">", "<", ">=", "<=", "IN", "NOT IN", "LIKE"} =>
            \E i \in 1..(TheCount - 1) :
                /\ ret.issued[i].op = "Where"
                /\ ret.issued[i].cols = <<queryConditions.Filters[k].Field>>
                /\ ret.issued[i].oper = queryConditions.Filters[k].Operator
                /\ ret.issued[i].args = <<queryConditions.Filters[k].Value>>
        /\ (HasText /\ queryConditions.SearchFields # <<>>) =>
            \E i \in 1..(TheCount - 1) :
                /\ ret.issued[i].op = "Where"
                /\ ret.issued[i].oper = "LIKE OR"
                /\ ret.issued[i].cols = queryConditions.SearchFields
        /\ ret.err = "" =>
            /\ pagination.Total = ret.issued[TheCount].n
            /\ \E i, j \in 1..Len(ret.issued) :
                /\ ret.issued[i].op = "Offset"
                /\ ret.issued[i].n = (pagination.Page - 1) * pagination.PageSize
                /\ ret.issued[j].op = "Limit"
                /\ ret.issued[j].n = pagination.PageSize

(* a filter predicate, the search group and an ordering, then the count, then
   offset and limit *)
C7_Witness ==
    /\ AppliedOk
    /\ \E i, j \in 1..Len(ret.issued) :
        /\ i < j /\ j < TheCount
        /\ ret.issued[i].op = "Where" /\ ret.issued[i].oper = ">="
        /\ ret.issued[j].op = "Where" /\ ret.issued[j].oper = "LIKE OR"
    /\ \E i \in 1..Len(ret.issued) : ret.issued[i].op = "Order"
    /\ \E i \in 1..Len(ret.issued) : ret.issued[i].op = "Limit"
    /\ pagination.Total > 0

(* C8: Info() on a helper on which Apply has never been called returns to its
   caller; it does not crash. *)
C8_InfoBeforeApplyReturns ==
    (ret.op = "Info" /\ ~applied) => ~ret.panic

NeverValidatedApply ==
    obj = "handle" /\ raw = Nil /\ ret.op = "ConditionsHandle.Apply"

(* C9 as stated: ConditionsHandle.Apply on a handle on which UpdateConditions never
   ran fails with "conditions not set" whatever the query handle, nil included, and
   attaches nothing. *)
C9_AsStated ==
    NeverValidatedApply =>
        /\ ret.err = "conditions not set"
        /\ ret.issued = <<>>

(* C9 amended: on a handle on which UpdateConditions never ran, Apply on a non-nil
   query handle fails with "conditions not set" and hands the handle back with
   nothing attached; on a nil query handle it returns nil and no error. *)
C9_NotSetUnlessNilQuery ==
    NeverValidatedApply =>
        IF ret.arg = Nil
        THEN ret.err = "" /\ ret.query = Nil
        ELSE /\ ret.err = "conditions not set"
             /\ ret.query = ret.arg
             /\ ret.issued = <<>>

C9_Witness ==
    /\ NeverValidatedApply
    /\ ret.arg # Nil
    /\ ret.err = "conditions not set"

ScenarioConditions ==
    [SearchText |-> Phone, SearchFields |-> <<>>, OrderBy |-> <<>>, SortFactor |-> 0,
     Filters |-> <<FilterCondition("price", ">=", Scalar(100)),
                   FilterCondition("price", ">", Scalar(50))>>]

(* the orchestrator's Apply has run on the scenario's request under its policy *)
InScenario ==
    /\ obj = "helper"
    /\ settings = Ptr(ScenarioPolicy)
    /\ applied
    /\ raw = Ptr(ScenarioConditions)
    /\ rawPage = [Page |-> 0, PageSize |-> 0]

ScenarioSanitized(text) ==
    [SearchText |-> text, SearchFields |-> <<"name">>, OrderBy |-> <<"created_at">>,
     SortFactor |-> 1, Filters |-> <<FilterCondition("price", ">=", Scalar(100))>>]

(* C10 as stated: the scenario reports page 1, page size 10, search_text "phone",
   searchFields [name], orderBy [created_at], sortFactor 1, filters [price >= 100];
   the sanitized search_text is always the raw text with its surrounding whitespace
   removed. *)
C10_AsStated ==
    /\ InScenario =>
        /\ pagination.Page = 1 /\ pagination.PageSize = 10
        /\ queryConditions = ScenarioSanitized(<<"p", "h", "o", "n", "e">>)
    /\ Validated =>
        /\ Sanitized.SearchText # <<>> => ~IsSpace(Sanitized.SearchText[1])
        /\ Sanitized.SearchText # <<>> =>
            ~IsSpace(Sanitized.SearchText[Len(Sanitized.SearchText)])

(* C10 amended: the scenario reports page 1, page size 10, search_text " phone " as
   it was sent, searchFields [name], orderBy [created_at], sortFactor 1, filters
   [price >= 100], and Info() echoes the same; the trimmed text appears only in the
   search predicate, as the pattern %phone%; the sanitized search_text is always
   the raw text unchanged. *)
C10_ScenarioKeepsRawText ==
    /\ InScenario =>
        /\ pagination.Page = 1 /\ pagination.PageSize = 10
        /\ queryConditions = ScenarioSanitized(Phone)
        /\ ret.op = "Info" =>
            /\ ~ret.panic
            /\ Deref(ret.info).Conditions = Ptr(ScenarioSanitized(Phone))
            /\ Deref(ret.info).Pagination.Page = 1
            /\ Deref(ret.info).Pagination.PageSize = 10
        /\ (ret.op = "Apply" /\ ret.arg # Nil) =>
            \E i \in 1..Len(ret.issued) :
                /\ ret.issued[i].oper = "LIKE OR"
                /\ ret.issued[i].cols = <<"name">>
                /\ ret.issued[i].like = <<"%", "p", "h", "o", "n", "e", "%">>
    /\ Validated => Sanitized.SearchText = RawInput.SearchText

(* Info() after Apply in the scenario *)
C10_Witness ==
    /\ InScenario
    /\ ret.op = "Info"
    /\ ~ret.panic
    /\ pagination.Total > 0

(* the last call was an orchestrator Apply whose count round-trip failed *)
CountFailed ==
    /\ ret.op = "Apply"
    /\ \E i \in 1..Len(ret.issued) :
        ret.issued[i].op = "Count" /\ ret.issued[i].oper = "error"

(* C11: when the count round-trip fails, Apply ends with that error after exactly one
   count attempt, with neither offset nor limit applied and with Total and
   TotalPages as they were before the call; the orchestrator hands the error to
   its caller and returns no query handle. *)
C11_CountFailurePropagates ==
    [][CountFailed' =>
        /\ ret'.err = "count failed"
        /\ ret'.query = Nil
        /\ Cardinality({i \in 1..Len(ret'.issued) : ret'.issued[i].op = "Count"}) = 1
        /\ \A i \in 1..Len(ret'.issued) : ret'.issued[i].op \notin {"Offset", "Limit"}
        /\ pagination'.Total = pagination.Total
        /\ pagination'.TotalPages = pagination.TotalPages]_vars

(* a count failed on a helper that holds the total of an earlier, successful Apply *)
C11_Witness ==
    /\ CountFailed
    /\ ret.err = "count failed"
    /\ ret.query = Nil
    /\ pagination.Total > 0
    /\ pagination.TotalPages > 1

(* the filter predicates the last call attached: every Where but the search group *)
FilterPredicates ==
    SelectSeq(ret.issued, LAMBDA c : c.op = "Where" /\ c.oper # "LIKE OR")

(* C12: after a successful orchestrator Apply on a non-nil handle, the filters that
   Info() reports and the filter predicates on the returned handle correspond one
   to one, in order: as many predicates as reported filters, the k-th predicate on
   the k-th filter's field with its operator. *)
C12_EchoIsWhatWasApplied ==
    AppliedOk =>
        /\ Len(FilterPredicates) = Len(queryConditions.Filters)
        /\ \A k \in 1..Len(FilterPredicates) :
            /\ FilterPredicates[k].cols = <<queryConditions.Filters[k].Field>>
            /\ FilterPredicates[k].oper = queryConditions.Filters[k].Operator

(* a step leaves the sanitized fields, ordering, direction and filters as they were *)
SanitizedUnchanged ==
    /\ Sanitized'.SearchFields = Sanitized.SearchFields
    /\ Sanitized'.OrderBy = Sanitized.OrderBy
    /\ Sanitized'.SortFactor = Sanitized.SortFactor
    /\ Sanitized'.Filters = Sanitized.Filters

(* no name of the set is renamed by the policy's ColumnAlias *)
NoAliasOn(s, names) == names \cap DOMAIN s.ColumnAlias = {}

Names(fields) == {fields[i] : i \in 1..Len(fields)}

(* C13 as stated: once validation has run, running it again on the same conditions
   with the same policy leaves searchFields, orderBy, sortFactor and filters
   identical. *)
C13_AsStated ==
    [][Validated => SanitizedUnchanged]_vars

(* C13 amended: running validation again on the same conditions with the same policy
   leaves filters identical when no filterable field has an alias; sortFactor
   identical when defaultSortFactor is -1, 0 or 1; searchFields identical when no
   allowed search field has an alias and the first run left them neither empty nor
   [""] (or left exactly allowedSearch); orderBy identical when no allowed order-by
   field has an alias and the first run left it non-empty (or left exactly
   allowedOrderBy). *)
C13_RevalidationStable ==
    [][Validated =>
        /\ NoAliasOn(UsedSettings, DOMAIN UsedSettings.AllowedFilters) =>
            Sanitized'.Filters = Sanitized.Filters
        /\ UsedSettings.DefaultSortFactor \in {0 - 1, 0, 1} =>
            Sanitized'.SortFactor = Sanitized.SortFactor
        /\ ( /\ NoAliasOn(UsedSettings, Names(UsedSettings.AllowedSearch))
             /\ \/ Sanitized.SearchFields \notin {<<>>, <<"">>}
                \/ Sanitized.SearchFields = UsedSettings.AllowedSearch ) =>
            Sanitized'.SearchFields = Sanitized.SearchFields
        /\ ( /\ NoAliasOn(UsedSettings, Names(UsedSettings.AllowedOrderBy))
             /\ \/ Sanitized.OrderBy # <<>>
                \/ Sanitized.OrderBy = UsedSettings.AllowedOrderBy ) =>
            Sanitized'.OrderBy = Sanitized.OrderBy]_vars

(* the orchestrator's Apply has run again on conditions that an earlier run had
   sanitized, under a policy without aliases, and has left them as they were *)
C13_Witness ==
    /\ obj = "helper"
    /\ ret.op = "Apply"
    /\ Validated
    /\ UsedSettings.ColumnAlias = NoAlias
    /\ RawInput = queryConditions
    /\ queryConditions.Filters # <<>>
    /\ queryConditions.SearchFields # <<>>
    /\ queryConditions.OrderBy # <<>>

====
